---- MODULE Spec2Model ----
(***************************************************************************)
(* Model of the LBP simulation engine of src/lbp_simulator.py.             *)
(*                                                                         *)
(* Numbers.  The program computes with IEEE-754 binary64 numbers (Python   *)
(* float, numpy.float64).  A number is modelled as [np, k, s, m, e]: np    *)
(* tells a numpy.float64 from a Python float, k is "fin", "inf" or "nan";  *)
(* a finite number has the value s * m * 2^e, s the sign, m a significand  *)
(* of exactly PREC = 53 bits held as four limbs of LimbBits bits (least    *)
(* significant first), zero being m = <<0, 0, 0, 0>> with e = 0.  A        *)
(* subnormal number is held with its significand shifted up to PREC bits,  *)
(* low bits zero, which keeps its value.  Sums, differences, products and  *)
(* quotients are computed exactly on the significands and rounded to       *)
(* nearest, ties to even, with overflow to infinity and gradual underflow, *)
(* so they are the values the program computes.  An operation on two       *)
(* Python floats gives a Python float and raises where Python raises       *)
(* (division by zero, overflow of a power); an operation with a            *)
(* numpy.float64 gives a numpy.float64 and raises nothing.                 *)
(*                                                                         *)
(* Two things are not represented.  The sign of a zero: -0.0 and 0.0 are   *)
(* equal in every comparison of the program, and where a zero divides a    *)
(* numpy.float64 (line 26) the sign of the infinite quotient does not      *)
(* change the weight returned.  The integer 0 the functions return         *)
(* (lines 13, 42, 61, 122, 123): it is the Python float 0.0 here, equal to *)
(* it in every operation of the program.                                   *)
(***************************************************************************)
EXTENDS Integers, Sequences, FiniteSets

\* Width of the significand of a binary64 number, in bits.
PREC == 53

\* Longest simulated duration (duration_hours) that is enumerated.
MaxHours == 3

(***************************************************************************)
(* Natural numbers of any size: sequences of limbs, least significant      *)
(* first.                                                                  *)
(***************************************************************************)
LimbBits == 14

Base == 2^LimbBits

Max(a, b) == IF a >= b THEN a ELSE b

Min(a, b) == IF a <= b THEN a ELSE b

Limb(x, i) == IF i >= 1 /\ i <= Len(x) THEN x[i] ELSE 0

\* Index of the highest limb that is not zero, 0 for the number zero.
Highest(nz) == IF nz = {} THEN 0 ELSE CHOOSE i \in nz : \A j \in nz : j <= i

TopLimb(x) == Highest({i \in 1..Len(x) : x[i] # 0})

\* x without its leading zero limbs.
Trim(x) == SubSeq(x, 1, TopLimb(x))

\* x without its q lowest limbs.
DropLimbs(x, q) == SubSeq(x, q + 1, Len(x))

\* One pass of carries: every column keeps its low limb and receives the
\* high part of the column below.
Reduce(cols) ==
    IF Len(cols) = 0 THEN <<>>
    ELSE Trim([i \in 1..(Len(cols) + 1) |->
                  (Limb(cols, i) % Base) + (Limb(cols, i - 1) \div Base)])

\* A carry enters column i of cols (columns in 0..2 * Base - 2) when a
\* column below overflows and every column in between is full.
CarryIn(cols, i) ==
    \E j \in 1..(i - 1) :
        /\ cols[j] >= Base
        /\ \A k \in (j + 1)..(i - 1) : cols[k] = Base - 1

\* The limbs of the number whose columns are cols, each in 0..2 * Base - 2.
Ripple(cols) ==
    IF Len(cols) = 0 THEN <<>>
    ELSE Trim([i \in 1..(Len(cols) + 1) |->
                  (Limb(cols, i) + (IF CarryIn(cols, i) THEN 1 ELSE 0)) % Base])

\* The limbs of the number whose columns are cols, each in 0..2^31 - 1.
Carry(cols) == Ripple(Reduce(Reduce(cols)))

BigFromInt(n) == <<n % Base, (n \div Base) % Base, n \div (Base * Base)>>

BigAdd(x, y) ==
    IF Len(x) = 0 THEN y
    ELSE IF Len(y) = 0 THEN x
    ELSE Ripple([i \in 1..Max(Len(x), Len(y)) |-> Limb(x, i) + Limb(y, i)])

BigLess(x, y) ==
    \E i \in 1..Max(Len(x), Len(y)) :
        /\ Limb(x, i) < Limb(y, i)
        /\ \A j \in (i + 1)..Max(Len(x), Len(y)) : Limb(x, j) = Limb(y, j)

\* A borrow enters column i of x - y when a column below is negative and
\* every column in between is zero.
BorrowIn(x, y, i) ==
    \E j \in 1..(i - 1) :
        /\ x[j] < Limb(y, j)
        /\ \A k \in (j + 1)..(i - 1) : x[k] = Limb(y, k)

\* x - y for x >= y.
BigSub(x, y) ==
    IF Len(y) = 0 THEN x
    ELSE Trim([i \in 1..Len(x) |->
                  (x[i] - Limb(y, i) - (IF BorrowIn(x, y, i) THEN 1 ELSE 0))
                      % Base])

\* x * y, for operands of at most seven limbs each: a column sums at most
\* seven products of two limbs.
BigMul(x, y) ==
    IF Len(x) = 0 \/ Len(y) = 0 THEN <<>>
    ELSE Carry([k \in 1..(Len(x) + Len(y)) |->
                   Limb(x, 1) * Limb(y, k) + Limb(x, 2) * Limb(y, k - 1)
                   + Limb(x, 3) * Limb(y, k - 2) + Limb(x, 4) * Limb(y, k - 3)
                   + Limb(x, 5) * Limb(y, k - 4) + Limb(x, 6) * Limb(y, k - 5)
                   + Limb(x, 7) * Limb(y, k - 6)])

\* x * n for 0 <= n < Base.
BigMulSmall(x, n) ==
    IF Len(x) = 0 THEN <<>>
    ELSE Ripple(Reduce([i \in 1..Len(x) |-> x[i] * n]))

\* Number of bits of n < Base.
SmallBitLen(n) ==
    CHOOSE b \in 0..LimbBits : n < 2^b /\ (b = 0 \/ n >= 2^(b - 1))

BitLenAt(x, t) ==
    IF t = 0 THEN 0 ELSE (t - 1) * LimbBits + SmallBitLen(x[t])

BigBitLen(x) == BitLenAt(x, TopLimb(x))

BigIsZero(x) == \A i \in 1..Len(x) : x[i] = 0

Zeros(q) == [i \in 1..q |-> 0]

\* x * 2^k: whole limbs are inserted below, the remaining bits multiplied in.
ShiftLeft(x, k) ==
    Zeros(k \div LimbBits) \o BigMulSmall(x, 2^(k % LimbBits))

\* floor(x / 2^k): x * 2^(LimbBits - (k % LimbBits)) without its low limbs.
ShiftRight(x, k) ==
    IF k % LimbBits = 0 THEN DropLimbs(x, k \div LimbBits)
    ELSE DropLimbs(BigMulSmall(x, 2^(LimbBits - (k % LimbBits))),
                   k \div LimbBits + 1)

\* Bit k of x, bit 0 being the least significant.
Bit(x, k) == (Limb(x, k \div LimbBits + 1) \div (2^(k % LimbBits))) % 2

\* x is a multiple of 2^k.
LowBitsZero(x, k) ==
    /\ \A i \in 1..(k \div LimbBits) : Limb(x, i) = 0
    /\ Limb(x, k \div LimbBits + 1) % (2^(k % LimbBits)) = 0

Reverse(x) == [i \in 1..Len(x) |-> x[Len(x) + 1 - i]]

\* Long division.  d is normalised (its top limb, at index Len(d), is at
\* least Base / 2) and r < d * Base^j.  Each quotient limb is estimated from
\* below from the two leading limbs of the remainder, then corrected; the
\* quotient limbs come out highest first.
Estimate(r, d, j) ==
    (Limb(r, Len(d) + j) * Base + Limb(r, Len(d) + j - 1))
        \div (d[Len(d)] + 1)

RECURSIVE Correct(_, _, _)
Correct(r, dj, q) ==
    IF BigLess(r, dj) THEN [r |-> r, q |-> q]
    ELSE Correct(BigSub(r, dj), dj, q + 1)

\* The quotient limb at position j and the remainder it leaves.
QuotientLimb(r, d, j, est) ==
    Correct(BigSub(r, Zeros(j - 1) \o BigMulSmall(d, est)),
            Zeros(j - 1) \o d, est)

Prepend(q, lower) == [q |-> <<q>> \o lower.q, r |-> lower.r]

RECURSIVE DivLimbs(_, _, _)
DivFrom(c, d, j) == Prepend(c.q, DivLimbs(c.r, d, j - 1))

DivLimbs(r, d, j) ==
    IF j = 0 \/ Len(r) = 0 THEN [q |-> Zeros(j), r |-> r]
    ELSE DivFrom(QuotientLimb(r, d, j, Estimate(r, d, j)), d, j)

DivResult(res) == [q |-> Trim(Reverse(res.q)), exact |-> BigIsZero(res.r)]

DivShifted(n, d, nq, s) ==
    DivResult(DivLimbs(ShiftLeft(n, s), ShiftLeft(d, s), nq))

\* floor(n / d) and whether the division is exact, for d > 0 and
\* n < d * Base^nq.
BigDiv(n, d, nq) ==
    DivShifted(n, d, nq, TopLimb(d) * LimbBits - BigBitLen(d))

\* floor(x / n) for 0 < n < 2^17, limb by limb from the top; the quotient
\* limbs come out highest first.
RECURSIVE DivSmallFrom(_, _, _, _)
DivSmallFrom(x, n, i, rem) ==
    IF i = 0 THEN <<>>
    ELSE <<(rem * Base + x[i]) \div n>>
             \o DivSmallFrom(x, n, i - 1, (rem * Base + x[i]) % n)

DivSmall(x, n) ==
    IF Len(x) = 0 THEN <<>>
    ELSE Trim(Reverse(DivSmallFrom(x, n, Len(x), 0)))

(***************************************************************************)
(* Floating-point arithmetic                                               *)
(***************************************************************************)
\* The finite numbers are the multiples of 2^MinExp below 2^(MaxExp + 1)
\* that have at most PREC significant bits.
MinExp == -1074

MaxExp == 1023

Number(np, k, s, m, e) == [np |-> np, k |-> k, s |-> s, m |-> m, e |-> e]

ZeroLimbs == <<0, 0, 0, 0>>

Zero == Number(FALSE, "fin", 1, ZeroLimbs, 0)

Inf(s) == Number(FALSE, "inf", s, ZeroLimbs, 0)

NaN == Number(FALSE, "nan", 1, ZeroLimbs, 0)

IsNaN(x) == x.k = "nan"

IsInf(x) == x.k = "inf"

IsZero(x) == x.k = "fin" /\ x.m = ZeroLimbs

\* The result of an operation is a numpy.float64 when an operand is one.
AsType(x, np) == [x EXCEPT !.np = np]

Float64(x) == AsType(x, TRUE)

Significand(x) == <<Limb(x, 1), Limb(x, 2), Limb(x, 3), Limb(x, 4)>>

\* x * 2^k, truncated.
Shift(x, k) == IF k >= 0 THEN ShiftLeft(x, k) ELSE ShiftRight(x, -k)

\* The number s * q * 2^e, which is exact: q has b bits, at most PREC and
\* e >= MinExp, or q = 2^PREC.  It is infinite when it reaches 2^(MaxExp+1).
FiniteBits(s, q, e, b) ==
    IF b = 0 THEN Zero
    ELSE IF e + b - 1 > MaxExp THEN Inf(s)
    ELSE Number(FALSE, "fin", s, Significand(Shift(q, PREC - b)),
                e - (PREC - b))

Finite(s, q, e) == FiniteBits(s, q, e, BigBitLen(q))

\* Dropping the k low bits of n rounds up: the first dropped bit is set and
\* the rest is not a tie, or the tie goes to an odd kept part.
RoundsUp(n, k, sticky) ==
    /\ Bit(n, k - 1) = 1
    /\ \/ ~LowBitsZero(n, k - 1)
       \/ sticky
       \/ Bit(n, k) = 1

\* s * n * 2^e with the k low bits of n rounded away (none when k <= 0).
NormBits(s, n, e, sticky, k) ==
    IF k <= 0 THEN Finite(s, n, e)
    ELSE IF RoundsUp(n, k, sticky)
         THEN Finite(s, BigAdd(ShiftRight(n, k), <<1>>), e + k)
         ELSE Finite(s, ShiftRight(n, k), e + k)

\* The number nearest to s * n * 2^e, ties to even; sticky tells that the
\* exact value lies strictly above n (and below n + 1).  The bits that do
\* not fit in PREC bits are dropped, and those below 2^MinExp (gradual
\* underflow).
Norm(s, n, e, sticky) ==
    NormBits(s, n, e, sticky, Max(BigBitLen(n) - PREC, MinExp - e))

\* Integers (|n| < 2^31) and quotients of integers, as Python converts them.
FromInt(n) == Norm(IF n < 0 THEN -1 ELSE 1,
                   BigFromInt(IF n < 0 THEN -n ELSE n), 0, FALSE)

\* -x
FNeg(x) == IF x.k = "nan" \/ IsZero(x) THEN x ELSE [x EXCEPT !.s = -x.s]

\* hi + lo for hi.e >= lo.e, a being the significand of hi aligned on lo: the
\* sum is formed exactly and rounded.
AddAligned(hi, lo, a) ==
    IF hi.s = lo.s THEN Norm(hi.s, BigAdd(a, lo.m), lo.e, FALSE)
    ELSE IF BigLess(a, lo.m) THEN Norm(lo.s, BigSub(lo.m, a), lo.e, FALSE)
    ELSE Norm(hi.s, BigSub(a, lo.m), lo.e, FALSE)

\* When the exponents differ by PREC + 2 or more the smaller operand lies
\* below a quarter of the last place of the larger and is absorbed.
AddOrdered(hi, lo) ==
    IF hi.e - lo.e >= PREC + 2 THEN hi
    ELSE AddAligned(hi, lo, ShiftLeft(hi.m, hi.e - lo.e))

\* x + y for finite x and y.
AddFinite(x, y) ==
    IF IsZero(x) THEN y
    ELSE IF IsZero(y) THEN x
    ELSE IF x.e >= y.e THEN AddOrdered(x, y)
    ELSE AddOrdered(y, x)

AddValue(x, y) ==
    IF IsNaN(x) \/ IsNaN(y) THEN NaN
    ELSE IF IsInf(x) THEN (IF IsInf(y) /\ y.s # x.s THEN NaN ELSE x)
    ELSE IF IsInf(y) THEN y
    ELSE AddFinite(x, y)

FAdd(x, y) == AsType(AddValue(x, y), x.np \/ y.np)

FSub(x, y) == FAdd(x, FNeg(y))

MulValue(x, y) ==
    IF IsNaN(x) \/ IsNaN(y) THEN NaN
    ELSE IF IsInf(x) \/ IsInf(y)
         THEN (IF IsZero(x) \/ IsZero(y) THEN NaN ELSE Inf(x.s * y.s))
    ELSE IF IsZero(x) \/ IsZero(y) THEN Zero
    ELSE Norm(x.s * y.s, BigMul(x.m, y.m), x.e + y.e, FALSE)

FMul(x, y) == AsType(MulValue(x, y), x.np \/ y.np)

DivRounded(x, y, d) ==
    Norm(x.s * y.s, d.q, x.e - y.e - (PREC + 2), ~d.exact)

\* x / y for y # 0: the quotient of the significands to PREC + 2 or PREC + 3
\* bits, the remainder deciding the rounding.
DivValue(x, y) ==
    IF IsNaN(x) \/ IsNaN(y) THEN NaN
    ELSE IF IsInf(x) THEN (IF IsInf(y) THEN NaN ELSE Inf(x.s * y.s))
    ELSE IF IsInf(y) \/ IsZero(x) THEN Zero
    ELSE DivRounded(x, y, BigDiv(ShiftLeft(x.m, PREC + 2), y.m, 4))

\* x / 0 for numpy.float64 (a warning, no exception); the sign of a zero is
\* not represented, the divisor counts as +0.
DivByZero(x) == IF IsNaN(x) \/ IsZero(x) THEN NaN ELSE Inf(x.s)

\* Outcome of an operation that raised instead of returning a number.
ZeroDivisionError == [exc |-> "ZeroDivisionError"]

OverflowError == [exc |-> "OverflowError"]

KeyError == [exc |-> "KeyError"]

NoException == [exc |-> "none"]

IsRaised(x) == "exc" \in DOMAIN x

\* x / y: a zero divisor raises when both operands are Python floats.
FDiv(x, y) ==
    IF IsZero(y)
    THEN (IF x.np \/ y.np THEN Float64(DivByZero(x)) ELSE ZeroDivisionError)
    ELSE AsType(DivValue(x, y), x.np \/ y.np)

\* |x| < |y| for x and y that are neither zero nor NaN.
MagLess(x, y) ==
    IF IsInf(x) THEN FALSE
    ELSE IF IsInf(y) THEN TRUE
    ELSE x.e < y.e \/ (x.e = y.e /\ BigLess(x.m, y.m))

LtOrdered(x, y) ==
    IF IsZero(x) THEN ~IsZero(y) /\ y.s = 1
    ELSE IF IsZero(y) THEN x.s = -1
    ELSE IF x.s # y.s THEN x.s = -1
    ELSE IF x.s = 1 THEN MagLess(x, y)
    ELSE MagLess(y, x)

\* x < y, x == y and x <= y: false when an operand is NaN.
FLt(x, y) == ~IsNaN(x) /\ ~IsNaN(y) /\ LtOrdered(x, y)

FEq(x, y) ==
    /\ ~IsNaN(x) /\ ~IsNaN(y)
    /\ x.k = y.k /\ x.s = y.s /\ x.m = y.m /\ x.e = y.e

FLe(x, y) == FEq(x, y) \/ FLt(x, y)

FromRat(n, d) == FDiv(FromInt(n), FromInt(d))

One == FromInt(1)

(***************************************************************************)
(* x ** y for x > 0 (line 51 lets no other base through).  Both the        *)
(* interpreter and numpy settle the infinite and NaN operands themselves   *)
(* and hand the finite ones to the C library's pow, whose result is within *)
(* one unit in the last place of the exact power but is not always the     *)
(* nearest number; which of the two neighbours it returns near a rounding  *)
(* boundary depends on the library build.  Pow is therefore the set of the *)
(* results a build can produce: the power is computed as                   *)
(* 2 ** (y * log2(x)) in fixed point with FixLimbs limbs after the binary  *)
(* point, and every binary64 number within 9/16 of a unit in the last      *)
(* place of it is an outcome.  A result that overflows is infinite for     *)
(* numpy (a warning) and raises OverflowError for Python floats; one that  *)
(* underflows is subnormal or zero for both.                               *)
(***************************************************************************)
FixLimbs == 6

FixBits == FixLimbs * LimbBits

\* 1, floor(ln(2) * 2^FixBits) and floor(2^FixBits / ln(2)).
OneFix == <<0, 0, 0, 0, 0, 0, 1>>

Ln2Fix == <<7739, 10994, 3961, 8007, 8575, 11356>>

InvLn2Fix == <<4351, 7647, 12257, 2784, 1893, 7253, 1>>

\* The integer n < Base in fixed point.
IntFix(n) == <<0, 0, 0, 0, 0, 0, n>>

\* Product of two fixed-point numbers, truncated.
MulFix(a, b) == DropLimbs(BigMul(a, b), FixLimbs)

\* st.sum + st.p / k + st.p * y2 / (k + 2) + st.p * y2^2 / (k + 4) + ...,
\* four terms at a time, y4, y6 and y8 being the powers of y2.
RECURSIVE AtanhSeries(_, _, _, _, _, _)
AtanhSeries(st, y2, y4, y6, y8, k) ==
    IF BigIsZero(st.p) THEN st.sum
    ELSE AtanhSeries(
             [sum |-> BigAdd(BigAdd(st.sum, DivSmall(st.p, k)),
                             BigAdd(DivSmall(MulFix(st.p, y2), k + 2),
                                    BigAdd(DivSmall(MulFix(st.p, y4), k + 4),
                                           DivSmall(MulFix(st.p, y6), k + 6)))),
              p |-> MulFix(st.p, y8)],
             y2, y4, y6, y8, k + 8)

AtanhFrom4(y2, y4) ==
    AtanhSeries([sum |-> <<>>, p |-> OneFix], y2, y4, MulFix(y4, y2), MulFix(y4, y4), 1)

\* atanh(y) / y = 1 + y^2 / 3 + y^4 / 5 + ..., given y2 = y^2.
AtanhFactor(y2) == AtanhFrom4(y2, MulFix(y2, y2))

Twice(x) == BigAdd(x, x)

\* The significand of 1.0.
OneSignificand == <<0, 0, 0, 2^(PREC - 1 - 3 * LimbBits)>>

\* x = f * 2^E with 1 <= f < 2.
Exponent(x) == x.e + PREC - 1

\* The logarithm of x is that of g = f for E >= 0 and E <= -2, and that of
\* g = f / 2 = x, which lies in [1/2, 1), for E = -1; ln(g) is
\* 2 * atanh((g - 1) / (g + 1)).  LogNum and LogDen are |g - 1| and g + 1
\* in the units of the significand.
LogNum(x) ==
    IF Exponent(x) = -1 THEN BigSub(Twice(OneSignificand), x.m)
    ELSE BigSub(x.m, OneSignificand)

LogDen(x) ==
    IF Exponent(x) = -1 THEN BigAdd(Twice(OneSignificand), x.m)
    ELSE BigAdd(x.m, OneSignificand)

\* |g - 1| / (g + 1) is below 2^(-s) for this s; the logarithm of a number
\* close to 1 is computed scaled up by 2^s to keep its leading bits.
LogScale(x) == PREC - BigBitLen(LogNum(x))

\* ys = 2^s * |g - 1| / (g + 1) in fixed point.
LogQuotient(x, s) ==
    BigDiv(ShiftLeft(LogNum(x), FixBits + s), LogDen(x), FixLimbs).q

\* 2^s * |log2(g)| = 2 * ys * (atanh(y) / y) / ln(2), with y = ys / 2^s.
Log2Scaled(ys, s) ==
    MulFix(Twice(MulFix(ys, AtanhFactor(ShiftRight(MulFix(ys, ys), 2 * s)))),
           InvLn2Fix)

\* log2(x) for x that is no power of 2, as (-1 if neg) * m / 2^s in fixed
\* point: the scaled logarithm of g when E is 0 or -1, and E + log2(f)
\* otherwise.
Log2At(x, s) ==
    IF Exponent(x) = 0 \/ Exponent(x) = -1
    THEN [neg |-> Exponent(x) < 0,
          m |-> Log2Scaled(LogQuotient(x, s), s), s |-> s]
    ELSE IF Exponent(x) > 0
    THEN [neg |-> FALSE,
          m |-> BigAdd(IntFix(Exponent(x)),
                       ShiftRight(Log2Scaled(LogQuotient(x, s), s), s)),
          s |-> 0]
    ELSE [neg |-> TRUE,
          m |-> BigSub(IntFix(-Exponent(x)),
                       ShiftRight(Log2Scaled(LogQuotient(x, s), s), s)),
          s |-> 0]

\* log2(x) for a finite x > 0.
Log2Fix(x) ==
    IF x.m = OneSignificand
    THEN [neg |-> Exponent(x) < 0,
          m |-> IntFix(IF Exponent(x) < 0 THEN -Exponent(x) ELSE Exponent(x)),
          s |-> 0]
    ELSE Log2At(x, LogScale(x))

\* st.sum + st.term * (1 + t / k + t^2 / (k * (k + 1)) + ...), four terms
\* at a time, t2, t3 and t4 being the powers of t.
RECURSIVE ExpSeries(_, _, _, _, _, _)
ExpSeries(st, t, t2, t3, t4, k) ==
    IF BigIsZero(st.term) THEN st.sum
    ELSE ExpSeries(
             [sum |-> BigAdd(
                  BigAdd(st.sum, st.term),
                  BigAdd(DivSmall(MulFix(st.term, t), k),
                         BigAdd(DivSmall(MulFix(st.term, t2), k * (k + 1)),
                                DivSmall(DivSmall(MulFix(st.term, t3),
                                                  k * (k + 1)), k + 2)))),
              term |-> DivSmall(DivSmall(MulFix(st.term, t4), k * (k + 1)),
                                (k + 2) * (k + 3))],
             t, t2, t3, t4, k + 4)

ExpFrom2(t, t2) ==
    ExpSeries([sum |-> <<>>, term |-> OneFix], t, t2, MulFix(t2, t), MulFix(t2, t2), 1)

\* e^t = 1 + t + t^2 / 2 + ...
ExpFix(t) == ExpFrom2(t, MulFix(t, t))

\* The fraction of the fixed-point number z.
Frac(z) == SubSeq(z, 1, Min(Len(z), FixLimbs))

\* The numbers q * 2^e and (q + 1) * 2^e that a library may return for a
\* value between them, t being the value's distance from the lower one in
\* sixteenths of 2^e: the nearer of the two, and both near the midpoint.
Neighbours(q, e, t) ==
    IF t <= 6 THEN {Finite(1, q, e)}
    ELSE IF t >= 9 THEN {Finite(1, BigAdd(q, <<1>>), e)}
    ELSE {Finite(1, q, e), Finite(1, BigAdd(q, <<1>>), e)}

\* v * 2^e to PREC bits, or to fewer when the result is subnormal: k low
\* bits of v are dropped.
NearestAt(v, e, k) ==
    Neighbours(ShiftRight(v, k), e + k, Limb(ShiftRight(v, k - 4), 1) % 16)

Nearest(v, e) == NearestAt(v, e, Max(BigBitLen(v) - PREC, MinExp - e))

\* 2^z for the fixed-point number |z| with integer part n: for z < 0 it is
\* 2^(-(n + 1)) * e^((1 - frac) * ln 2), for z > 0 it is
\* 2^n * e^(frac * ln 2).  An integer part of Base or more is far out of
\* range.
Exp2(neg, z) ==
    IF Len(z) > FixLimbs + 1 THEN {IF neg THEN Zero ELSE Inf(1)}
    ELSE IF neg
    THEN Nearest(ExpFix(MulFix(BigSub(OneFix, Frac(z)), Ln2Fix)),
                 -(Limb(z, FixLimbs + 1) + 1) - FixBits)
    ELSE Nearest(ExpFix(MulFix(Frac(z), Ln2Fix)),
                 Limb(z, FixLimbs + 1) - FixBits)

\* x ** y = 2^(y * log2(x)), log being log2(x) as Log2Fix returns it.
PowOfLog(y, log) ==
    Exp2((y.s = -1) # log.neg, Shift(BigMul(y.m, log.m), y.e - log.s))

\* What the C library returns for finite x > 0, x # 1 and y # 0.
PowFinite(x, y) == PowOfLog(y, Log2Fix(x))

\* The operands that are settled without the library.
PowSpecial(x, y) ==
    IF IsZero(y) THEN One
    ELSE IF IsNaN(x) THEN NaN
    ELSE IF IsNaN(y) THEN (IF FEq(x, One) THEN One ELSE NaN)
    ELSE IF FEq(x, One) THEN One
    ELSE IF IsInf(y)
         THEN (IF (y.s = 1) = FLt(One, x) THEN Inf(1) ELSE Zero)
    ELSE IF y.s = 1 THEN Inf(1) ELSE Zero

\* The outcomes of x ** y; an infinite result of the library is an overflow.
Pow(x, y) ==
    IF IsZero(y) \/ ~(x.k = "fin") \/ ~(y.k = "fin") \/ FEq(x, One)
    THEN {AsType(PowSpecial(x, y), x.np \/ y.np)}
    ELSE {IF IsInf(power) /\ ~(x.np \/ y.np) THEN OverflowError
          ELSE AsType(power, x.np \/ y.np) : power \in PowFinite(x, y)}

(***************************************************************************)
(* Pricing and swap engine.  The arguments are Python floats or            *)
(* numpy.float64 numbers: run_simulation passes weights that are           *)
(* numpy.float64 (they come from np.linspace), for which a division by     *)
(* zero and an overflowing power give an infinity or a NaN where Python    *)
(* floats raise.                                                           *)
(***************************************************************************)
SWAP_FEE == FromRat(3, 2000)

\* np.clip(x, lo, hi) = minimum(maximum(x, lo), hi), a numpy.float64; a NaN
\* among the three is the result.
clip(x, lo, hi) ==
    IF IsNaN(x) \/ IsNaN(lo) \/ IsNaN(hi) THEN Float64(NaN)
    ELSE IF FLt(hi, lo) \/ FLt(hi, x) THEN Float64(hi)
    ELSE IF FLt(x, lo) THEN Float64(lo)
    ELSE Float64(x)

get_spot_price(token_a_balance, token_b_balance, token_a_weight, token_b_weight) ==
    IF \/ FLe(token_a_balance, Zero) \/ FLe(token_b_balance, Zero)
       \/ FLe(token_a_weight, Zero) \/ FLe(token_b_weight, Zero)
    THEN Zero
    ELSE FDiv(FDiv(token_b_balance, token_b_weight),
              FDiv(token_a_balance, token_a_weight))

\* Lines 29-32, given the ratio of line 26 or the exception it raised.
ClipWeight(weight_a) ==
    IF IsRaised(weight_a) THEN weight_a
    ELSE clip(weight_a, FromRat(1, 100), FromRat(99, 100))

WeightOfRatio(ratio) ==
    IF IsRaised(ratio) THEN ratio
    ELSE ClipWeight(FDiv(One, FAdd(One, ratio)))

derive_weight_from_price(token_a_balance, token_b_balance, desired_price) ==
    IF FEq(token_a_balance, Zero) \/ FLe(desired_price, Zero)
    THEN FromRat(9, 10)
    ELSE WeightOfRatio(FDiv(token_b_balance,
                            FMul(token_a_balance, desired_price)))

\* Lines 57-64, given the outcome of ratio_b ** exponent: an exception
\* raised by the power is caught and 0 is returned.
SoldForPower(token_a_balance, power) ==
    IF IsRaised(power) THEN Zero
    ELSE clip(FMul(token_a_balance, FSub(One, power)), Zero, token_a_balance)

\* Lines 55-64, given the exponent of line 55 or the exception it raised.
SoldForExponent(token_a_balance, ratio_b, exponent) ==
    IF IsRaised(exponent) THEN {exponent}
    ELSE {SoldForPower(token_a_balance, power) : power \in Pow(ratio_b, exponent)}

\* Lines 51-64, given the ratio of line 49 or the exception it raised.
SoldForRatio(token_a_balance, token_a_weight, token_b_weight, ratio_b) ==
    IF IsRaised(ratio_b) THEN {ratio_b}
    ELSE IF FLe(ratio_b, Zero) THEN {token_a_balance}
    ELSE SoldForExponent(token_a_balance, ratio_b,
                         FDiv(FNeg(token_b_weight), token_a_weight))

\* The set of the values the function can return (one for each outcome of
\* the power), or the exception it raises.
calculate_token_a_sold(token_b_bought, token_a_balance, token_b_balance, token_a_weight, token_b_weight) ==
    IF FLe(token_b_bought, Zero) THEN {Zero}
    ELSE SoldForRatio(token_a_balance, token_a_weight, token_b_weight,
                      FDiv(FAdd(token_b_balance,
                                FMul(token_b_bought, FSub(One, SWAP_FEE))),
                           token_b_balance))

\* Faulty variant: the interval is divided as if the end point were excluded.
linspaceNoEndpoint(start, stop, num) ==
    [i \in 1..num |->
        Float64(FAdd(FMul(FromInt(i - 1),
                          FDiv(Float64(FSub(stop, start)), FromInt(num))),
                     start))]

\* np.linspace(start, stop, num)[i] for num >= 2: start + i * step with
\* step = (stop - start) / (num - 1), or start + (i / (num - 1)) * (stop -
\* start) when the step is zero; the last point is set to stop.
linspace(start, stop, num) ==
    [i \in 1..num |->
        IF i = num THEN Float64(stop)
        ELSE IF IsZero(FDiv(Float64(FSub(stop, start)), FromInt(num - 1)))
        THEN Float64(FAdd(FMul(FDiv(Float64(FromInt(i - 1)), FromInt(num - 1)),
                               FSub(stop, start)),
                          start))
        ELSE Float64(FAdd(FMul(FromInt(i - 1),
                               FDiv(Float64(FSub(stop, start)),
                                    FromInt(num - 1))),
                          start))]

(***************************************************************************)
(* Parameter records: dictionaries, modelled as functions whose domain is  *)
(* the set of keys present.                                                *)
(***************************************************************************)
Hours == 1..MaxHours

InitialTokenA == {Zero, FromInt(10), FromInt(7500000)}

InitialTokenB == {Zero, One, FromInt(1333333)}

Prices == {Zero, FromRat(1, 1000), FromRat(1, 10), FromInt(10)}

Demands == {FromInt(-1), Zero, FromRat(1, 2), FromInt(1000000)}

MaxPrices == {FromRat(1, 100)}

\* The record run_simulation reads: weights given by a start and an end price.
PriceRecord(h, a, b, sp, ep, d) ==
    [k \in {"duration_hours", "initial_token_a", "initial_token_b",
            "start_price", "end_price", "demand_per_hour_token_b"} |->
        CASE k = "duration_hours" -> h
          [] k = "initial_token_a" -> a
          [] k = "initial_token_b" -> b
          [] k = "start_price" -> sp
          [] k = "end_price" -> ep
          [] k = "demand_per_hour_token_b" -> d]

PriceParams ==
    {  PriceRecord(h, a, b, sp, ep, d)
       : h \in Hours, a \in InitialTokenA, b \in InitialTokenB,
         sp \in Prices, ep \in Prices, d \in Demands  }

\* The same record carrying a price ceiling as well, for one pool.
WithCeiling(p, mp) ==
    [k \in DOMAIN p \cup {"max_price"} |-> IF k = "max_price" THEN mp ELSE p[k]]

CeilingParams ==
    {  WithCeiling(PriceRecord(h, FromInt(10), One, sp, ep, d), mp)
       : h \in Hours, sp \in Prices, ep \in Prices, d \in Demands,
         mp \in MaxPrices  }

\* Runs at a constant target price for which the power of the swap formula
\* lies near a rounding boundary (where the library's result need not be
\* the nearest number), for one pool.
FlatPrice == FromRat(649, 1000)

FlatParams ==
    {  PriceRecord(h, FromInt(10), One, FlatPrice, FlatPrice, d)
       : h \in Hours, d \in Demands  }

\* 2^n as a Python float, for MinExp + PREC <= n <= MaxExp.
PowerOfTwo(n) == Number(FALSE, "fin", 1, OneSignificand, n - (PREC - 1))

\* Runs at the ends of the range of the numbers: a pool whose token B
\* balance overflows when the second demand is added, and a pool so small
\* that token_a_balance * desired_price underflows to zero (line 26).
LargeParams ==
    {  PriceRecord(h, FromInt(10), PowerOfTwo(MaxExp), Zero, Zero,
                   PowerOfTwo(MaxExp))
       : h \in Hours  }

SmallParams ==
    {  PriceRecord(h, PowerOfTwo(-600), One, sp, PowerOfTwo(-600), FromRat(1, 2))
       : h \in Hours, sp \in {Zero, PowerOfTwo(-600)}  }

\* The record the caller builds (src/app.py): explicit start and end weights
\* and a price ceiling, no start or end price.
AppParams ==
    {  [k \in {"initial_token_a", "initial_token_b", "start_weight", "end_weight",
               "duration_hours", "max_price", "demand_per_hour_token_b"} |->
          CASE k = "initial_token_a" -> a
            [] k = "initial_token_b" -> b
            [] k = "start_weight" -> FromRat(99, 100)
            [] k = "end_weight" -> FromRat(30, 100)
            [] k = "duration_hours" -> h
            [] k = "max_price" -> mp
            [] k = "demand_per_hour_token_b" -> d]
       : h \in Hours, a \in InitialTokenA, b \in InitialTokenB,
         mp \in MaxPrices, d \in Demands  }

(***************************************************************************)
(* run_simulation as a state machine: one step for the set-up before the   *)
(* loop, one per loop iteration, one for the return.                        *)
(***************************************************************************)
VARIABLES
    params,                       \* the argument of run_simulation
    pc,                           \* "start", "loop", "done" or "raised"
    raised,                       \* the exception that ended the run, if any
    i,                            \* loop index
    token_a_balance,
    token_b_balance,
    cumulative_proceeds_token_b,
    start_weight,
    end_weight,
    weights,                      \* weights[i + 1] models weights[i]
    data,                         \* the rows appended so far
    computed_sales                \* per row, the sale of lines 105-118 as
                                  \* computed before the guard of line 121

vars == <<params, pc, raised, i, token_a_balance, token_b_balance,
          cumulative_proceeds_token_b, start_weight, end_weight, weights, data,
          computed_sales>>

Init ==
    /\ params \in PriceParams \cup FlatParams \cup LargeParams \cup SmallParams
                    \cup CeilingParams \cup AppParams
    /\ pc = "start"
    /\ raised = NoException
    /\ i = 0
    /\ token_a_balance = Zero
    /\ token_b_balance = Zero
    /\ cumulative_proceeds_token_b = Zero
    /\ start_weight = Zero
    /\ end_weight = Zero
    /\ weights = <<>>
    /\ data = <<>>
    /\ computed_sales = <<>>

\* Keys read before the loop, lines 73-89.
KeysRead == {"duration_hours", "initial_token_a", "initial_token_b",
             "start_price", "end_price", "demand_per_hour_token_b"}

Raise(exc) ==
    /\ pc' = "raised"
    /\ raised' = exc

\* Lines 81-89, given the start weight: the end weight is derived, then the
\* demand is read.
WeightsFrom(p, sw, ew) ==
    IF IsRaised(ew) THEN ew
    ELSE IF "demand_per_hour_token_b" \notin DOMAIN p THEN KeyError
    ELSE [sw |-> sw, ew |-> ew]

\* Lines 78-89, given the outcome of the first derivation.
EndWeightFrom(p, sw) ==
    IF IsRaised(sw) THEN sw
    ELSE IF "end_price" \notin DOMAIN p THEN KeyError
    ELSE WeightsFrom(p, sw,
                     derive_weight_from_price(p["initial_token_a"],
                         p["initial_token_b"], p["end_price"]))

\* Lines 73-89: the two weights, or the first exception raised; the keys
\* are read in the order of the lines, the derivations in between.
SetupOutcome(p) ==
    IF ~({"duration_hours", "initial_token_a", "initial_token_b",
          "start_price"} \subseteq DOMAIN p)
    THEN KeyError
    ELSE EndWeightFrom(p, derive_weight_from_price(p["initial_token_a"],
                              p["initial_token_b"], p["start_price"]))

\* Lines 73-92: read the parameters, derive the two weights, interpolate.
Setup ==
    /\ pc = "start"
    /\ \E out \in {SetupOutcome(params)} :
          IF IsRaised(out)
          THEN /\ Raise(out)
               /\ UNCHANGED <<i, token_a_balance, token_b_balance,
                              cumulative_proceeds_token_b, start_weight,
                              end_weight, weights, data, computed_sales>>
          ELSE /\ pc' = "loop"
               /\ token_a_balance' = params["initial_token_a"]
               /\ token_b_balance' = params["initial_token_b"]
               /\ start_weight' = out.sw
               /\ end_weight' = out.ew
               /\ weights' = linspace(out.sw, out.ew,
                                      params["duration_hours"] + 1)
               /\ cumulative_proceeds_token_b' = Zero
               /\ data' = <<>>
               /\ computed_sales' = <<>>
               /\ i' = 0
               /\ UNCHANGED raised
    /\ UNCHANGED params

\* Line 121: the computed sale is nothing, or would leave less than 1e-9.
DrainEps == FDiv(One, FromInt(1000000000))

Drained(sold, balance) ==
    FEq(sold, Zero) \/ FLt(FSub(balance, sold), DrainEps)

\* Faulty variant: the collateral received is not added to the pool.
UpdateBalancesKeepB(idx, hours, a, b, cum, sold, gained) ==
    IF idx < hours
    THEN [a |-> FSub(a, sold), b |-> b, cum |-> FAdd(cum, gained)]
    ELSE [a |-> a, b |-> b, cum |-> cum]

\* Faulty variant: the proceeds are assigned instead of accumulated.
UpdateBalancesAssignCum(idx, hours, a, b, cum, sold, gained) ==
    IF idx < hours
    THEN [a |-> FSub(a, sold), b |-> FAdd(b, gained), cum |-> gained]
    ELSE [a |-> a, b |-> b, cum |-> cum]

\* Lines 140-143: the balances and the proceeds entering the next iteration.
UpdateBalances(idx, hours, a, b, cum, sold, gained) ==
    IF idx < hours
    THEN [a |-> FSub(a, sold), b |-> FAdd(b, gained), cum |-> FAdd(cum, gained)]
    ELSE [a |-> a, b |-> b, cum |-> cum]

\* Lines 102-123: the sale and the collateral recorded for the hour, given
\* the value calculate_token_a_sold returned.
Traded(idx, computed, balance) == idx > 0 /\ ~Drained(computed, balance)

\* Lines 125-137: the row appended for the hour.
Row(idx, price, a, b, wa, wb, sold, gained, cum, sw, ew) ==
    [hour |-> idx, price |-> price, token_a_balance |-> a,
     token_b_balance |-> b, token_a_weight |-> wa, token_b_weight |-> wb,
     token_a_sold |-> sold, token_b_gained |-> gained,
     cumulative_proceeds_token_b |-> cum, start_weight |-> sw,
     end_weight |-> ew]

\* Lines 102-143, for an hour whose price and computed sale raised nothing.
Record(price, wa, wb, computed, sold, gained) ==
    /\ data' = Append(data, Row(i, price, token_a_balance, token_b_balance,
                                wa, wb, sold, gained,
                                cumulative_proceeds_token_b, start_weight,
                                end_weight))
    /\ computed_sales' = Append(computed_sales, computed)
    /\ \E upd \in {UpdateBalances(i, params["duration_hours"],
                                   token_a_balance, token_b_balance,
                                   cumulative_proceeds_token_b, sold, gained)} :
          /\ token_a_balance' = upd.a
          /\ token_b_balance' = upd.b
          /\ cumulative_proceeds_token_b' = upd.cum
    /\ i' = i + 1
    /\ UNCHANGED <<pc, raised>>

\* An exception leaves run_simulation: nothing is returned.
Fail(exc) ==
    /\ Raise(exc)
    /\ UNCHANGED <<i, token_a_balance, token_b_balance,
                   cumulative_proceeds_token_b, data, computed_sales>>

\* Lines 100-143, given the two weights of the hour.
Hour(wa, wb, price) ==
    IF IsRaised(price) THEN Fail(price)
    ELSE \E computed \in (IF i > 0
                           THEN calculate_token_a_sold(
                                    params["demand_per_hour_token_b"],
                                    token_a_balance, token_b_balance, wa, wb)
                           ELSE {Zero}) :
           IF IsRaised(computed) THEN Fail(computed)
           ELSE IF Traded(i, computed, token_a_balance)
           THEN Record(price, wa, wb, computed, computed,
                       params["demand_per_hour_token_b"])
           ELSE Record(price, wa, wb, computed, Zero, Zero)

\* Lines 94-143: one iteration of the loop.
Step ==
    /\ pc = "loop"
    /\ i <= params["duration_hours"]
    /\ \E wa \in {weights[i + 1]} : \E wb \in {FSub(One, wa)} :
          Hour(wa, wb, get_spot_price(token_a_balance, token_b_balance, wa, wb))
    /\ UNCHANGED <<params, start_weight, end_weight, weights>>

\* Line 145: the loop is over, the rows are returned.
Return ==
    /\ pc = "loop"
    /\ i > params["duration_hours"]
    /\ pc' = "done"
    /\ UNCHANGED <<params, raised, i, token_a_balance, token_b_balance,
                   cumulative_proceeds_token_b, start_weight, end_weight,
                   weights, data, computed_sales>>

Next == Setup \/ Step \/ Return

Spec == Init /\ [][Next]_vars

(***************************************************************************)
(* Properties                                                              *)
(***************************************************************************)
Rows == 1..Len(data)

HasPrices == KeysRead \subseteq DOMAIN params

Returned == pc = "done"

\* The guard of line 121 fired in row k because the computed sale would
\* leave less than 1e-9 of token A.
DrainFired(k) ==
    /\ data[k].hour >= 1
    /\ ~FEq(computed_sales[k], Zero)
    /\ FLt(FSub(data[k].token_a_balance, computed_sales[k]), DrainEps)

NoSale(row) == FEq(row.token_a_sold, Zero) /\ FEq(row.token_b_gained, Zero)

\* The same value: equal numbers, or not a number on both sides.
Same(x, y) == FEq(x, y) \/ (IsNaN(x) /\ IsNaN(y))

\* The run left the loop with an exception (lines 94-143).
RaisedInLoop == pc = "raised" /\ weights # <<>>

RECURSIVE SumGained(_)
SumGained(k) ==
    IF k = 0 THEN Zero ELSE FAdd(SumGained(k - 1), data[k].token_b_gained)

\* C1: every parameter record with duration_hours = H >= 1 makes
\* run_simulation return (no exception) exactly H + 1 rows, the row at
\* position i having hour = i.
C1_ReturnsAllRows ==
    /\ pc # "raised"
    /\ Returned =>
          /\ Len(data) = params["duration_hours"] + 1
          /\ \A k \in Rows : data[k].hour = k - 1

\* C2: row 0 carries the initial balances with nothing sold, gained or
\* accumulated; each later row's balances are the previous row's balances
\* less its sale and plus its gain; the last row's sale and gain are never
\* applied to the balances.
C2_RowsRecordEnteringState ==
    /\ Len(data) >= 1 =>
          /\ Same(data[1].token_a_balance, params["initial_token_a"])
          /\ Same(data[1].token_b_balance, params["initial_token_b"])
          /\ NoSale(data[1])
          /\ FEq(data[1].cumulative_proceeds_token_b, Zero)
    /\ \A k \in Rows : k < Len(data) =>
          /\ Same(data[k + 1].token_a_balance,
                  FSub(data[k].token_a_balance, data[k].token_a_sold))
          /\ Same(data[k + 1].token_b_balance,
                  FAdd(data[k].token_b_balance, data[k].token_b_gained))
    /\ Returned =>
          /\ Same(token_a_balance, data[Len(data)].token_a_balance)
          /\ Same(token_b_balance, data[Len(data)].token_b_balance)

\* A returned run in which an intermediate hour and the last hour both sold.
C2_Witness ==
    /\ Returned
    /\ Len(data) >= 3
    /\ FLt(Zero, data[2].token_a_sold)
    /\ FLt(Zero, data[Len(data)].token_a_sold)

\* C3: the cumulative proceeds of row i are the sum of token_b_gained over
\* the rows before it, and never decrease from a row to the next.
C3_CumulativeProceeds ==
    \A k \in Rows :
        /\ FEq(data[k].cumulative_proceeds_token_b, SumGained(k - 1))
        /\ k < Len(data) =>
              FLe(data[k].cumulative_proceeds_token_b,
                  data[k + 1].cumulative_proceeds_token_b)

\* A returned run whose last row accumulates the gains of at least two hours.
C3_Witness ==
    /\ Returned
    /\ \E k \in Rows : \E l \in Rows :
          /\ k < l /\ l < Len(data)
          /\ FLt(Zero, data[k].token_b_gained)
          /\ FLt(Zero, data[l].token_b_gained)

\* C4: when the record carries max_price, a row whose pre-swap price exceeds
\* max_price has token_b_gained = 0 and token_a_sold = 0.
C4_CeilingStopsDemand ==
    "max_price" \in DOMAIN params =>
        \A k \in Rows :
            FLt(params["max_price"], data[k].price) => NoSale(data[k])

\* C5: a record giving start_weight and end_weight and no start_price or
\* end_price is accepted: the run raises nothing and the first and last rows
\* carry those weights.
C5_ExplicitWeightsAccepted ==
    ("start_weight" \in DOMAIN params /\ "start_price" \notin DOMAIN params) =>
        /\ raised = NoException
        /\ Len(data) >= 1 =>
              FEq(data[1].token_a_weight, params["start_weight"])
        /\ Returned =>
              FEq(data[Len(data)].token_a_weight, params["end_weight"])

\* C6: once the guard has fired in an hour k >= 1 because the computed sale
\* would leave less than 1e-9 of token A, that row and every later row record
\* token_a_sold = 0 and token_b_gained = 0, for any weight schedule
\* (decreasing or increasing).
C6_DrainGuardPermanent ==
    \A k \in Rows : \A l \in Rows :
        (k <= l /\ DrainFired(k)) => NoSale(data[l])

\* The permanence of the guard restricted to weight schedules that do not
\* increase (start weight >= end weight): the balances stay as they are and
\* the computed sale does not shrink.
C6_DrainGuardPermanentNonIncreasing ==
    \A k \in Rows : \A l \in Rows :
        (k <= l /\ DrainFired(k) /\ FLe(end_weight, start_weight))
            => NoSale(data[l])

\* A returned run on a strictly decreasing schedule in which the guard fired
\* for a draining sale before the last hour.
C6_Witness ==
    /\ Returned
    /\ FLt(end_weight, start_weight)
    /\ \E k \in Rows : k < Len(data) /\ DrainFired(k)

\* C7: a run started with positive balances records token_a_balance >= 0
\* and token_b_balance >= 0 in every row, whatever the demand.
C7_BalancesNonNegative ==
    (/\ "initial_token_a" \in DOMAIN params
     /\ FLt(Zero, params["initial_token_a"])
     /\ FLt(Zero, params["initial_token_b"])) =>
        /\ \A k \in Rows :
              /\ FLe(Zero, data[k].token_a_balance)
              /\ FLe(Zero, data[k].token_b_balance)
        /\ FLe(Zero, token_a_balance)
        /\ FLe(Zero, token_b_balance)

\* A run started with positive balances records no balance below zero: a
\* balance is positive, zero, infinite or not a number.
C7_NoBalanceBelowZero ==
    (/\ "initial_token_a" \in DOMAIN params
     /\ FLt(Zero, params["initial_token_a"])
     /\ FLt(Zero, params["initial_token_b"])) =>
        /\ \A k \in Rows :
              /\ ~FLt(data[k].token_a_balance, Zero)
              /\ ~FLt(data[k].token_b_balance, Zero)
        /\ ~FLt(token_a_balance, Zero)
        /\ ~FLt(token_b_balance, Zero)

\* A returned run with positive initial balances in which token A was sold.
C7_Witness ==
    /\ Returned
    /\ FLt(Zero, params["initial_token_a"])
    /\ FLt(Zero, params["initial_token_b"])
    /\ FLt(data[Len(data)].token_a_balance, params["initial_token_a"])

\* A returned run with positive initial balances and a negative demand.
C7_WitnessNegativeDemand ==
    /\ Returned
    /\ FLt(Zero, params["initial_token_a"])
    /\ FLt(Zero, params["initial_token_b"])
    /\ FLt(params["demand_per_hour_token_b"], Zero)
    /\ Len(data) >= 3

\* A returned run with positive initial balances whose token B balance
\* overflowed, after which a row records a token A balance that is not a
\* number.
C7_OverflowRun ==
    /\ Returned
    /\ FLt(Zero, params["initial_token_a"])
    /\ FLt(Zero, params["initial_token_b"])
    /\ \E k \in Rows : IsInf(data[k].token_b_balance)
    /\ \E k \in Rows : IsNaN(data[k].token_a_balance)

\* C8: calculate_token_a_sold never raises, whatever its arguments (a zero
\* token B balance or token A weight included), so no run, one started with
\* initial_token_b = 0 included, leaves the loop with an exception.
C8_SwapNeverRaises ==
    ~RaisedInLoop

\* C9: the token A weights of the rows are monotonic (non-increasing when the
\* start weight exceeds the end weight, non-decreasing otherwise), row 0
\* carries the weight derived from start_price and the last row the weight
\* derived from end_price, both at the initial balances.
C9_WeightSchedule ==
    (HasPrices /\ Len(data) >= 1) =>
        LET sw == derive_weight_from_price(params["initial_token_a"],
                      params["initial_token_b"], params["start_price"])
            ew == derive_weight_from_price(params["initial_token_a"],
                      params["initial_token_b"], params["end_price"])
        IN  /\ FEq(data[1].token_a_weight, sw)
            /\ Returned => FEq(data[Len(data)].token_a_weight, ew)
            /\ \A k \in Rows : k < Len(data) =>
                  IF FLt(ew, sw)
                  THEN FLe(data[k + 1].token_a_weight, data[k].token_a_weight)
                  ELSE FLe(data[k].token_a_weight, data[k + 1].token_a_weight)

\* A returned run of at least three rows whose weights strictly decrease.
C9_Witness ==
    /\ Returned
    /\ Len(data) >= 3
    /\ \A k \in Rows : k < Len(data) =>
          FLt(data[k + 1].token_a_weight, data[k].token_a_weight)

\* C10: in every row token_b_gained is 0 or exactly the demand; it is not 0
\* only when token_a_sold is strictly positive and leaves at least 1e-9 of
\* token A; otherwise token_a_sold and token_b_gained are both 0.
C10_NoCollateralWithoutSale ==
    \A k \in Rows :
        IF ~FEq(data[k].token_b_gained, Zero)
        THEN /\ FEq(data[k].token_b_gained, params["demand_per_hour_token_b"])
             /\ FLt(Zero, data[k].token_a_sold)
             /\ FLe(DrainEps, FSub(data[k].token_a_balance,
                                   data[k].token_a_sold))
        ELSE FEq(data[k].token_a_sold, Zero)

\* The same, for the rows whose balances and computed sale are numbers.
C10_NoCollateralWithoutSaleOfNumbers ==
    \A k \in Rows :
        (~IsNaN(computed_sales[k]) /\ ~IsNaN(data[k].token_a_balance)) =>
            IF ~FEq(data[k].token_b_gained, Zero)
            THEN /\ FEq(data[k].token_b_gained,
                        params["demand_per_hour_token_b"])
                 /\ FLt(Zero, data[k].token_a_sold)
                 /\ FLe(DrainEps, FSub(data[k].token_a_balance,
                                       data[k].token_a_sold))
            ELSE FEq(data[k].token_a_sold, Zero)

\* A returned run with a positive demand in which one hour traded and another
\* was stopped by the guard.
C10_Witness ==
    /\ Returned
    /\ FLt(Zero, params["demand_per_hour_token_b"])
    /\ \E k \in Rows : FLt(Zero, data[k].token_b_gained)
    /\ \E k \in Rows : k >= 2 /\ FEq(data[k].token_b_gained, Zero)

====
